---- MODULE Spec2Model ----
(***************************************************************************)
(* Model of mcp_server_dexcom/server.py: the glucose analytics handlers    *)
(* (get_glucose_readings, get_statistics, detect_episodes,                 *)
(* analyze_time_blocks, get_agp_report, ...) and the shared input path     *)
(* (external batch -> parse_external_data, otherwise the Dexcom client).   *)
(*                                                                         *)
(* Python values are encoded as follows:                                   *)
(*   None          <<>>            (an optional value x is <<x>>)          *)
(*   list          sequence                                                *)
(*   dict          record (a missing key is a missing field)               *)
(*   datetime      seconds since 2024-01-01T00:00:00+00:00                 *)
(*   round(x, 1)   an integer number of tenths                             *)
(***************************************************************************)
EXTENDS Integers, Sequences, FiniteSets, TLC

VARIABLES op, data, low, high, max_count, credentials, feed,
          pc, client_calls, readings, sorted_readings, i, episodes,
          current_episode, result

vars == <<op, data, low, high, max_count, credentials, feed,
          pc, client_calls, readings, sorted_readings, i, episodes,
          current_episode, result>>

\* The arguments of the call and the environment it runs in.
inputs == <<op, data, low, high, max_count, credentials, feed>>

\* The locals of the detect_episodes scan.
scan == <<sorted_readings, i, episodes, current_episode>>

None == <<>>

Some(x) == <<x>>

\* Python truthiness of an optional list: None and [] are both falsy.
Truthy(d) == d # None /\ d[1] # <<>>

Min2(a, b) == IF a < b THEN a ELSE b

Max2(a, b) == IF a > b THEN a ELSE b

\* s[a] + ... + s[b], by halves.
RECURSIVE SumRange(_, _, _)
SumRange(s, a, b) ==
    IF a > b THEN 0
    ELSE IF a = b THEN s[a]
    ELSE SumRange(s, a, (a + b) \div 2) + SumRange(s, (a + b) \div 2 + 1, b)

SumSeq(s) == SumRange(s, 1, Len(s))

MinSeq(s) == CHOOSE v \in {s[k] : k \in 1..Len(s)} :
                 \A k \in 1..Len(s) : v <= s[k]

MaxSeq(s) == CHOOSE v \in {s[k] : k \in 1..Len(s)} :
                 \A k \in 1..Len(s) : v >= s[k]

\* The nearest multiple of 1 / den to num, ties to the even one, as round()
\* rounds a value that is exactly representable (num >= 0, den > 0).
RoundHalfEven(num, den) ==
    LET q == num \div den
        r == num % den
    IN IF 2 * r < den THEN q
       ELSE IF 2 * r > den THEN q + 1
       ELSE IF q % 2 = 0 THEN q ELSE q + 1

\* floor(log2(a / b)): the exponent of the double a / b (a > 0, b > 0).
RECURSIVE Exponent(_, _)
Exponent(a, b) ==
    IF a < b THEN Exponent(2 * a, b) - 1
    ELSE IF 2 * b <= a THEN Exponent(a, 2 * b) + 1
    ELSE 0

\* (a * 2^s) % m, without forming a * 2^s.
RECURSIVE ShiftMod(_, _, _)
ShiftMod(a, s, m) ==
    IF s = 0 THEN a % m ELSE (2 * ShiftMod(a, s - 1, m)) % m

\* The double a / b (a > 0, b > 0): IEEE 754 division gives the 53-bit
\* significand sig nearest a * 2^(52 - exponent) / b, ties to the even one, so
\* that a / b evaluates to sig * 2^(exponent - 52).  Of sig the record keeps
\* what the roundings that follow depend on: its low eight bits, and
\* excess = (sig - a * 2^(52 - exponent) / b) * b, which is positive when the
\* double lies above the quotient, negative when it lies below and 0 when the
\* quotient is representable.
Divide(a, b) ==
    LET e == Exponent(a, b)
        n == ShiftMod(a, 52 - e, 256 * b)
        r == n % b
        f == n \div b
        up == IF 2 * r > b \/ (2 * r = b /\ f % 2 = 1) THEN 1 ELSE 0
    IN [exponent |-> e, low |-> (f + up) % 256, excess |-> up * b - r]

\* round(num / den, 1), in tenths (num >= 0, den > 0).  round() gives the
\* tenth nearest the double num / den.  The double is within 2^-53 of the
\* quotient, relatively, and a quotient that is not midway between two tenths
\* is at least 1 / (20 * den) away from the midpoint, so there the nearest
\* tenth of the double is that of the quotient.  A quotient midway between
\* two tenths goes by the side on which its double lies, and by ties to even
\* when it is representable.
Round1(num, den) ==
    LET midway == (20 * num) % den = 0 /\ ((20 * num) \div den) % 2 = 1
        excess == Divide(num, den).excess
    IN IF midway /\ excess > 0 THEN (10 * num) \div den + 1
       ELSE IF midway /\ excess < 0 THEN (10 * num) \div den
       ELSE RoundHalfEven(10 * num, den)

\* round(count / total * 100, 1), in tenths of a percent (count >= 0,
\* total > 0).  The product of the double count / total with 100 has the
\* significand 100 * sig, of 59 or 60 bits, which is rounded to 53 bits, ties
\* to even, by dropping its low 6 or 7 bits; "above" has the sign of the
\* rounded product less the exact percentage.  As in Round1 only a percentage
\* midway between two tenths goes by that sign.
Percent(count, total) ==
    LET midway == (2000 * count) % total = 0
                  /\ ((2000 * count) \div total) % 2 = 1
        d == Divide(count, total)
        sixty == IF d.exponent + 7 < 0
                 THEN 100 * count * 2^(0 - (d.exponent + 7)) >= total
                 ELSE 100 * count >= 2^(d.exponent + 7) * total
        unit == IF sixty THEN 128 ELSE 64
        dropped == (100 * d.low) % unit
        kept == ((100 * d.low) \div unit) % 2
        up == 2 * dropped > unit \/ (2 * dropped = unit /\ kept = 1)
        above == (IF up THEN unit - dropped ELSE 0 - dropped) * total
                 + 100 * d.excess
    IN IF midway /\ above > 0 THEN (1000 * count) \div total + 1
       ELSE IF midway /\ above < 0 THEN (1000 * count) \div total
       ELSE RoundHalfEven(1000 * count, total)

(***************************************************************************)
(* Timestamps.  The ISO-8601 strings a batch may carry, and what           *)
(* str.replace('Z', '+00:00'), datetime.fromisoformat and                  *)
(* datetime.isoformat make of them.                                        *)
(***************************************************************************)
Replace_Z(s) ==
    CASE s = "2024-01-01T05:50:00Z" -> "2024-01-01T05:50:00+00:00"
      [] s = "2024-01-01T06:07:30Z" -> "2024-01-01T06:07:30+00:00"
      [] s = "2024-01-01T03:00:00Z" -> "2024-01-01T03:00:00+00:00"
      [] s = "2024-01-01T08:00:00Z" -> "2024-01-01T08:00:00+00:00"
      [] s = "2024-01-01T14:00:00Z" -> "2024-01-01T14:00:00+00:00"
      [] s = "2024-01-01T20:00:00Z" -> "2024-01-01T20:00:00+00:00"
      [] s = "2024-01-02T03:10:00Z" -> "2024-01-02T03:10:00+00:00"
      [] s = "2024-01-01T05:59:59Z" -> "2024-01-01T05:59:59+00:00"
      [] s = "2024-01-01T11:59:59Z" -> "2024-01-01T11:59:59+00:00"
      [] s = "2024-01-01T12:00:00Z" -> "2024-01-01T12:00:00+00:00"
      [] s = "2024-01-01T17:59:59Z" -> "2024-01-01T17:59:59+00:00"
      [] s = "2024-01-01T18:00:00Z" -> "2024-01-01T18:00:00+00:00"
      [] s = "2024-01-01T10:00:00Z" -> "2024-01-01T10:00:00+00:00"
      [] s = "2024-01-01T10:05:00Z" -> "2024-01-01T10:05:00+00:00"
      [] s = "2024-01-01T10:10:00Z" -> "2024-01-01T10:10:00+00:00"
      [] s = "2024-01-01T10:15:00Z" -> "2024-01-01T10:15:00+00:00"
      [] s = "2024-01-01T10:20:00Z" -> "2024-01-01T10:20:00+00:00"
      [] s = "2024-01-01T10:25:00Z" -> "2024-01-01T10:25:00+00:00"
      [] s = "2024-01-01T10:30:00Z" -> "2024-01-01T10:30:00+00:00"
      [] s = "2024-01-01T10:35:00Z" -> "2024-01-01T10:35:00+00:00"
      [] s = "2024-01-01T10:40:00Z" -> "2024-01-01T10:40:00+00:00"
      [] s = "2024-01-01T10:45:00Z" -> "2024-01-01T10:45:00+00:00"
      [] OTHER -> s

\* datetime.fromisoformat: Some(instant), or None for "Invalid isoformat
\* string" (ValueError).
fromisoformat(s) ==
    CASE s = "2024-01-01T03:00:00+00:00" -> Some(10800)
      [] s = "2024-01-01T05:50:00+00:00" -> Some(21000)
      [] s = "2024-01-01T05:53:00+00:00" -> Some(21180)
      [] s = "2024-01-01T06:07:30+00:00" -> Some(22050)
      [] s = "2024-01-01T08:00:00+00:00" -> Some(28800)
      [] s = "2024-01-01T14:00:00+00:00" -> Some(50400)
      [] s = "2024-01-01T20:00:00+00:00" -> Some(72000)
      [] s = "2024-01-02T03:10:00+00:00" -> Some(97800)
      [] s = "2024-01-01T05:59:59+00:00" -> Some(21599)
      [] s = "2024-01-01T06:00:00+00:00" -> Some(21600)
      [] s = "2024-01-01T11:59:59+00:00" -> Some(43199)
      [] s = "2024-01-01T12:00:00+00:00" -> Some(43200)
      [] s = "2024-01-01T17:59:59+00:00" -> Some(64799)
      [] s = "2024-01-01T18:00:00+00:00" -> Some(64800)
      [] s = "2024-01-01T10:00:00+00:00" -> Some(36000)
      [] s = "2024-01-01T10:05:00+00:00" -> Some(36300)
      [] s = "2024-01-01T10:10:00+00:00" -> Some(36600)
      [] s = "2024-01-01T10:15:00+00:00" -> Some(36900)
      [] s = "2024-01-01T10:20:00+00:00" -> Some(37200)
      [] s = "2024-01-01T10:25:00+00:00" -> Some(37500)
      [] s = "2024-01-01T10:30:00+00:00" -> Some(37800)
      [] s = "2024-01-01T10:35:00+00:00" -> Some(38100)
      [] s = "2024-01-01T10:40:00+00:00" -> Some(38400)
      [] s = "2024-01-01T10:45:00+00:00" -> Some(38700)
      [] OTHER -> None

isoformat(dt) ==
    CASE dt = 10800 -> "2024-01-01T03:00:00+00:00"
      [] dt = 21000 -> "2024-01-01T05:50:00+00:00"
      [] dt = 21180 -> "2024-01-01T05:53:00+00:00"
      [] dt = 22050 -> "2024-01-01T06:07:30+00:00"
      [] dt = 28800 -> "2024-01-01T08:00:00+00:00"
      [] dt = 50400 -> "2024-01-01T14:00:00+00:00"
      [] dt = 72000 -> "2024-01-01T20:00:00+00:00"
      [] dt = 97800 -> "2024-01-02T03:10:00+00:00"
      [] dt = 21599 -> "2024-01-01T05:59:59+00:00"
      [] dt = 21600 -> "2024-01-01T06:00:00+00:00"
      [] dt = 43199 -> "2024-01-01T11:59:59+00:00"
      [] dt = 43200 -> "2024-01-01T12:00:00+00:00"
      [] dt = 64799 -> "2024-01-01T17:59:59+00:00"
      [] dt = 64800 -> "2024-01-01T18:00:00+00:00"
      [] dt = 36000 -> "2024-01-01T10:00:00+00:00"
      [] dt = 36300 -> "2024-01-01T10:05:00+00:00"
      [] dt = 36600 -> "2024-01-01T10:10:00+00:00"
      [] dt = 36900 -> "2024-01-01T10:15:00+00:00"
      [] dt = 37200 -> "2024-01-01T10:20:00+00:00"
      [] dt = 37500 -> "2024-01-01T10:25:00+00:00"
      [] dt = 37800 -> "2024-01-01T10:30:00+00:00"
      [] dt = 38100 -> "2024-01-01T10:35:00+00:00"
      [] dt = 38400 -> "2024-01-01T10:40:00+00:00"
      [] dt = 38700 -> "2024-01-01T10:45:00+00:00"

\* datetime.hour
Hour(dt) == (dt \div 3600) % 24

(***************************************************************************)
(* parse_external_data                                                     *)
(***************************************************************************)
\* ExternalReading(d["glucose_mg_dl"], d["timestamp"]) for one record d:
\* the exception it raises ("" when none) and the reading built.
ExternalReading(d) ==
    IF "glucose_mg_dl" \notin DOMAIN d THEN [error |-> "KeyError"]
    ELSE IF "timestamp" \notin DOMAIN d THEN [error |-> "KeyError"]
    ELSE LET t == fromisoformat(Replace_Z(d.timestamp))
         IN IF t = None THEN [error |-> "ValueError"]
            ELSE [error |-> "",
                  reading |-> [value |-> d.glucose_mg_dl, datetime |-> t[1]]]

\* A conversion that skips the records it cannot convert.
RECURSIVE parse_external_data_BestEffort(_)
parse_external_data_BestEffort(items) ==
    IF items = <<>> THEN [error |-> "", readings |-> <<>>]
    ELSE LET r == ExternalReading(Head(items))
             rest == parse_external_data_BestEffort(Tail(items))
         IN IF r.error # "" THEN rest
            ELSE [error |-> "", readings |-> <<r.reading>> \o rest.readings]

\* The list comprehension: the first record that raises aborts the whole
\* conversion.
parse_external_data(items) ==
    LET parsed == [k \in 1..Len(items) |-> ExternalReading(items[k])]
        failed == {k \in 1..Len(items) : parsed[k].error # ""}
    IN IF items = <<>> THEN [error |-> "", readings |-> <<>>]
       ELSE IF failed # {}
       THEN [error |-> parsed[CHOOSE k \in failed :
                                  \A j \in failed : k <= j].error,
             readings |-> <<>>]
       ELSE [error |-> "",
             readings |-> [k \in 1..Len(items) |-> parsed[k].reading]]

(***************************************************************************)
(* Sorting: sorted(..., key=lambda r: r.datetime) is stable, also with     *)
(* reverse=True.                                                           *)
(***************************************************************************)
RECURSIVE InsertAsc(_, _)
InsertAsc(s, r) ==
    IF s = <<>> THEN <<r>>
    ELSE IF s[Len(s)].datetime <= r.datetime THEN Append(s, r)
    ELSE Append(InsertAsc(SubSeq(s, 1, Len(s) - 1), r), s[Len(s)])

RECURSIVE SortedAsc(_)
SortedAsc(s) ==
    IF s = <<>> THEN <<>>
    ELSE InsertAsc(SortedAsc(SubSeq(s, 1, Len(s) - 1)), s[Len(s)])

RECURSIVE InsertDesc(_, _)
InsertDesc(s, r) ==
    IF s = <<>> THEN <<r>>
    ELSE IF s[Len(s)].datetime >= r.datetime THEN Append(s, r)
    ELSE Append(InsertDesc(SubSeq(s, 1, Len(s) - 1), r), s[Len(s)])

RECURSIVE SortedDesc(_)
SortedDesc(s) ==
    IF s = <<>> THEN <<>>
    ELSE InsertDesc(SortedDesc(SubSeq(s, 1, Len(s) - 1)), s[Len(s)])

(***************************************************************************)
(* The acquisition collaborator.                                           *)
(***************************************************************************)
\* get_dexcom_client: raises ValueError without credentials.
get_dexcom_client(creds) == IF ~creds THEN "ValueError" ELSE ""

\* client.get_glucose_readings(minutes, max_count): the recent readings the
\* service holds, most recent first, at most max_count of them.
client_get_glucose_readings(held, mc) == SubSeq(held, 1, Min2(Len(held), mc))

\* The input path every handler starts with:
\*   if data: readings = parse_external_data(data)
\*   else:    client = get_dexcom_client(); readings = client.get_...(...)
\* error is the exception raised ("" when none), calls the number of
\* get_dexcom_client invocations.
Acquire(d, creds, held, mc) ==
    IF Truthy(d)
    THEN LET p == parse_external_data(d[1])
         IN [error |-> p.error, readings |-> p.readings, calls |-> 0]
    ELSE IF get_dexcom_client(creds) # ""
         THEN [error |-> get_dexcom_client(creds), readings |-> <<>>,
               calls |-> 1]
         ELSE [error |-> "",
               readings |-> client_get_glucose_readings(held, mc),
               calls |-> 1]

Raised(e) == [status |-> "raised", error |-> e]

NoData(msg) == [status |-> "no_data", message |-> msg]

(***************************************************************************)
(* Inputs.                                                                 *)
(***************************************************************************)
\* Longest external batch given to detect_episodes.
MaxLen == 3

\* One value per band of the default thresholds: very low, low, in range,
\* high, very high.
EpisodeValues == {45, 60, 100, 200, 255}

EpisodeTimestamps ==
    {"2024-01-01T05:50:00Z", "2024-01-01T05:53:00+00:00",
     "2024-01-01T06:07:30Z"}

\* (low, high): the defaults, a pair with low below 54 and high above 250,
\* and an inverted pair.
Thresholds == {<<70, 180>>, <<40, 260>>, <<180, 70>>}

Records(values, stamps) ==
    {[glucose_mg_dl |-> v, timestamp |-> t] : v \in values, t \in stamps}

SeqsUpTo(S, n) == UNION {[1..k -> S] : k \in 0..n}

\* n records of value v at timestamp t.
Repeat(v, t, n) == [k \in 1..n |-> [glucose_mg_dl |-> v, timestamp |-> t]]

\* Batches long enough for a mean or a percentage midway between two tenths
\* that is not representable as a double: a mean of 40.15 (803 / 20), 28.75 %
\* in range (23 of 80), and the latter in the morning after an overnight block
\* with 15 of 52 in range.
LongBatches ==
    {Repeat(40, "2024-01-01T05:50:00Z", 19)
         \o Repeat(43, "2024-01-01T05:50:00Z", 1),
     Repeat(100, "2024-01-01T05:50:00Z", 23)
         \o Repeat(200, "2024-01-01T05:50:00Z", 57),
     Repeat(100, "2024-01-01T03:00:00Z", 15)
         \o Repeat(200, "2024-01-01T03:00:00Z", 37)
         \o Repeat(100, "2024-01-01T06:07:30Z", 23)
         \o Repeat(200, "2024-01-01T06:07:30Z", 57)}

\* Batches with a malformed record at the first, a middle or the last
\* position: a missing field or an unparseable timestamp.
MalformedBatches ==
    LET good == [glucose_mg_dl |-> 45, timestamp |-> "2024-01-01T05:50:00Z"]
        bad  == {[glucose_mg_dl |-> 60],
                 [timestamp |-> "2024-01-01T05:53:00+00:00"],
                 [glucose_mg_dl |-> 200, timestamp |-> "yesterday"]}
    IN UNION {{<<b>>, <<b, good>>, <<good, b>>, <<good, b, good>>} : b \in bad}

\* What the Dexcom service may hold, most recent first.
Feeds ==
    {<<>>,
     <<[value |-> 60, datetime |-> 22050]>>,
     <<[value |-> 255, datetime |-> 22050], [value |-> 100, datetime |-> 21180],
       [value |-> 45, datetime |-> 21000]>>}

\* The state before a handler runs, with the input path's three cases: an
\* external batch, an empty batch, no batch.
InitCommon(batches) ==
    /\ data \in {None} \cup {Some(b) : b \in batches \cup MalformedBatches}
    /\ IF Truthy(data)
       THEN credentials = TRUE /\ feed = <<>>
       ELSE credentials \in BOOLEAN /\ feed \in Feeds
    /\ pc = "call"
    /\ client_calls = 0
    /\ readings = <<>>
    /\ sorted_readings = <<>>
    /\ i = 0
    /\ episodes = <<>>
    /\ current_episode = None
    /\ result = [status |-> "none"]

(***************************************************************************)
(* detect_episodes                                                         *)
(***************************************************************************)
\* The classification of one value; "" stands for episode_type = None.
Classify(value, lo, hi) ==
    IF value < 54 THEN "very_low"
    ELSE IF value < lo THEN "low"
    ELSE IF value > 250 THEN "very_high"
    ELSE IF value > hi THEN "high"
    ELSE ""

IsLowType(t) == t \in {"low", "very_low"}

\* ExtendEpisode with the type overwritten by every reading's own type.
ExtendEpisode_Overwrite(ep, reading, episode_type) ==
    [ep EXCEPT !.end = reading.datetime,
               !.values = Append(@, reading.value),
               !.type = episode_type]

\* The open episode extended by a reading of its own direction.
ExtendEpisode(ep, reading, episode_type) ==
    [ep EXCEPT !.end = reading.datetime,
               !.values = Append(@, reading.value),
               !.type = IF episode_type \in {"very_low", "very_high"}
                        THEN episode_type ELSE @]

NewEpisode(reading, episode_type) ==
    [type |-> episode_type, start |-> reading.datetime,
     end |-> reading.datetime, values |-> <<reading.value>>]

\* ScanReading without the direction test: any out-of-range reading extends
\* the open episode.
ScanReading_NoDirection(cur, eps, reading, lo, hi) ==
    LET episode_type == Classify(reading.value, lo, hi)
    IN IF episode_type # ""
       THEN IF cur # None
            THEN [current_episode |->
                      Some(ExtendEpisode(cur[1], reading, episode_type)),
                  episodes |-> eps]
            ELSE [current_episode |-> Some(NewEpisode(reading, episode_type)),
                  episodes |-> eps]
       ELSE [current_episode |-> None,
             episodes |-> IF cur # None THEN Append(eps, cur[1]) ELSE eps]

\* One iteration of the scan: the open episode and the closed episodes
\* after the reading.
ScanReading(cur, eps, reading, lo, hi) ==
    LET episode_type == Classify(reading.value, lo, hi)
        is_low == IsLowType(episode_type)
    IN IF episode_type # ""
       THEN IF cur # None /\ is_low = IsLowType(cur[1].type)
            THEN [current_episode |->
                      Some(ExtendEpisode(cur[1], reading, episode_type)),
                  episodes |-> eps]
            ELSE [current_episode |-> Some(NewEpisode(reading, episode_type)),
                  episodes |-> IF cur # None THEN Append(eps, cur[1]) ELSE eps]
       ELSE [current_episode |-> None,
             episodes |-> IF cur # None THEN Append(eps, cur[1]) ELSE eps]

\* CloseScan that emits the open episode without marking it.
CloseScan_Unmarked(cur, eps) == IF cur # None THEN Append(eps, cur[1]) ELSE eps

\* After the scan: an episode still open is marked ongoing and emitted.
CloseScan(cur, eps) ==
    IF cur # None
    THEN Append(eps, [type |-> cur[1].type, start |-> cur[1].start,
                      end |-> cur[1].end, values |-> cur[1].values,
                      ongoing |-> TRUE])
    ELSE eps

\* DurationMinutes rounded to the nearest minute instead of truncated.
DurationMinutes_Rounded(start, end) == (end - start + 30) \div 60

\* int((end - start).total_seconds() / 60), for end >= start.
DurationMinutes(start, end) == (end - start) \div 60

\* FormatEpisode with the largest value as the extreme of every episode.
FormatEpisode_ExtremeMax(ep) ==
    [type |-> ep.type,
     start |-> isoformat(ep.start),
     end |-> isoformat(ep.end),
     duration_minutes |-> Max2(DurationMinutes(ep.start, ep.end), 5),
     extreme_value |-> MaxSeq(ep.values),
     mean_value |-> Round1(SumSeq(ep.values), Len(ep.values)),
     ongoing |-> IF "ongoing" \in DOMAIN ep THEN ep.ongoing ELSE FALSE]

\* One entry of "formatted".
FormatEpisode(ep) ==
    [type |-> ep.type,
     start |-> isoformat(ep.start),
     end |-> isoformat(ep.end),
     duration_minutes |-> Max2(DurationMinutes(ep.start, ep.end), 5),
     extreme_value |-> IF IsLowType(ep.type) THEN MinSeq(ep.values)
                       ELSE MaxSeq(ep.values),
     mean_value |-> Round1(SumSeq(ep.values), Len(ep.values)),
     ongoing |-> IF "ongoing" \in DOMAIN ep THEN ep.ongoing ELSE FALSE]

Summary(formatted) ==
    LET low_eps == SelectSeq(formatted, LAMBDA e : IsLowType(e.type))
        high_eps == SelectSeq(formatted,
                              LAMBDA e : e.type \in {"high", "very_high"})
        durations(s) == SumSeq([k \in 1..Len(s) |-> s[k].duration_minutes])
    IN [total_episodes |-> Len(formatted),
        low_episodes |-> Len(low_eps),
        high_episodes |-> Len(high_eps),
        total_low_minutes |-> durations(low_eps),
        total_high_minutes |-> durations(high_eps),
        severe_lows |->
            Cardinality({k \in 1..Len(low_eps) : low_eps[k].type = "very_low"}),
        severe_highs |->
            Cardinality({k \in 1..Len(high_eps) :
                             high_eps[k].type = "very_high"})]

\* Entry of the handler up to the sort.
detect_episodes_call ==
    /\ op = "detect_episodes"
    /\ pc = "call"
    /\ LET a == Acquire(data, credentials, feed, 288)
       IN /\ client_calls' = client_calls + a.calls
          /\ readings' = a.readings
          /\ IF a.error # ""
             THEN /\ result' = Raised(a.error)
                  /\ pc' = "done"
                  /\ UNCHANGED <<sorted_readings, i>>
             ELSE IF a.readings = <<>>
             THEN /\ result' = NoData("No readings available")
                  /\ pc' = "done"
                  /\ UNCHANGED <<sorted_readings, i>>
             ELSE /\ sorted_readings' = SortedAsc(a.readings)
                  /\ i' = 1
                  /\ pc' = "scan"
                  /\ UNCHANGED result
    /\ UNCHANGED <<inputs, episodes, current_episode>>

\* One iteration of "for reading in sorted_readings".
detect_episodes_scan ==
    /\ op = "detect_episodes"
    /\ pc = "scan"
    /\ i <= Len(sorted_readings)
    /\ LET s == ScanReading(current_episode, episodes, sorted_readings[i],
                            low, high)
       IN /\ current_episode' = s.current_episode
          /\ episodes' = s.episodes
    /\ i' = i + 1
    /\ UNCHANGED <<inputs, pc, client_calls, readings, sorted_readings,
                   result>>

\* The code after the loop: the ongoing episode, the formatting, the summary.
detect_episodes_finish ==
    /\ op = "detect_episodes"
    /\ pc = "scan"
    /\ i > Len(sorted_readings)
    /\ episodes' = CloseScan(current_episode, episodes)
    /\ current_episode' = IF current_episode # None
                          THEN Some(episodes'[Len(episodes')]) ELSE None
    /\ LET formatted == [k \in 1..Len(episodes') |-> FormatEpisode(episodes'[k])]
       IN result' = [status |-> "ok",
                     readings_analyzed |-> Len(sorted_readings),
                     episodes |-> formatted,
                     summary |-> Summary(formatted)]
    /\ pc' = "done"
    /\ UNCHANGED <<inputs, client_calls, readings, sorted_readings, i>>

InitEpisodes ==
    /\ op = "detect_episodes"
    /\ \E th \in Thresholds : low = th[1] /\ high = th[2]
    /\ max_count = 12
    /\ InitCommon(SeqsUpTo(Records(EpisodeValues, EpisodeTimestamps), MaxLen))

NextEpisodes ==
    \/ detect_episodes_call
    \/ detect_episodes_scan
    \/ detect_episodes_finish

SpecEpisodes == InitEpisodes /\ [][NextEpisodes]_vars

(***************************************************************************)
(* get_glucose_readings                                                    *)
(***************************************************************************)
\* Longest external batch given to get_glucose_readings.
MaxReadingsLen == 3

\* max_count ranges over -MaxCount..MaxCount.
MaxCount == 3

ReadingValues == {60, 100}

\* The Python slice s[:n]: a negative n counts from the end.
SliceTo(s, n) ==
    IF n >= 0 THEN SubSeq(s, 1, Min2(n, Len(s)))
    ELSE SubSeq(s, 1, Max2(Len(s) + n, 0))

\* max(1, min(288, max_count))
ClampCount(n) == Max2(1, Min2(288, n))

ReadingRecord(r) ==
    [glucose_mg_dl |-> r.value, timestamp |-> isoformat(r.datetime)]

\* The whole handler.
get_glucose_readings ==
    /\ op = "get_glucose_readings"
    /\ pc = "call"
    /\ LET a == Acquire(data, credentials, feed, ClampCount(max_count))
           kept == IF Truthy(data)
                   THEN SliceTo(SortedDesc(a.readings), max_count)
                   ELSE a.readings
       IN /\ client_calls' = client_calls + a.calls
          /\ readings' = IF a.error # "" THEN <<>> ELSE kept
          /\ result' = IF a.error # "" THEN Raised(a.error)
                       ELSE IF kept = <<>>
                       THEN [status |-> "no_data",
                             message |-> "No readings found",
                             readings |-> <<>>]
                       ELSE [status |-> "ok",
                             count |-> Len(kept),
                             readings |-> [k \in 1..Len(kept) |->
                                               ReadingRecord(kept[k])]]
    /\ pc' = "done"
    /\ UNCHANGED <<inputs, scan>>

InitReadings ==
    /\ op = "get_glucose_readings"
    /\ low = 70
    /\ high = 180
    /\ max_count \in (0 - MaxCount)..MaxCount
    /\ InitCommon(SeqsUpTo(Records(ReadingValues, EpisodeTimestamps),
                           MaxReadingsLen))

NextReadings == get_glucose_readings

SpecReadings == InitReadings /\ [][NextReadings]_vars

(***************************************************************************)
(* get_statistics                                                          *)
(***************************************************************************)
\* Longest external batch given to get_statistics.
MaxStatsLen == 3

\* Thresholds with 54 <= low <= high <= 250.
StatsThresholds == {<<70, 180>>, <<54, 250>>, <<100, 100>>}

Values(rs) == [k \in 1..Len(rs) |-> rs[k].value]

\* The five counters of lines 147-151.
BandCounts(values, lo, hi) ==
    [in_range |-> Cardinality({k \in 1..Len(values) :
                                   lo <= values[k] /\ values[k] <= hi}),
     below |-> Cardinality({k \in 1..Len(values) : values[k] < lo}),
     above |-> Cardinality({k \in 1..Len(values) : values[k] > hi}),
     very_low |-> Cardinality({k \in 1..Len(values) : values[k] < 54}),
     very_high |-> Cardinality({k \in 1..Len(values) : values[k] > 250})]

\* The report; std_dev and cv_percent (floating-point square root) are not
\* part of the model.
Statistics(values, lo, hi) ==
    LET total == Len(values)
        c == BandCounts(values, lo, hi)
    IN [status |-> "ok",
        reading_count |-> total,
        mean_mg_dl |-> Round1(SumSeq(values), total),
        min_mg_dl |-> MinSeq(values),
        max_mg_dl |-> MaxSeq(values),
        time_in_range_percent |-> Percent(c.in_range, total),
        time_below_percent |-> Percent(c.below, total),
        time_above_percent |-> Percent(c.above, total),
        time_very_low_percent |-> Percent(c.very_low, total),
        time_very_high_percent |-> Percent(c.very_high, total),
        thresholds |-> [low |-> lo, high |-> hi]]

\* The whole handler.
get_statistics ==
    /\ op = "get_statistics"
    /\ pc = "call"
    /\ LET a == Acquire(data, credentials, feed, 288)
       IN /\ client_calls' = client_calls + a.calls
          /\ readings' = a.readings
          /\ result' = IF a.error # "" THEN Raised(a.error)
                       ELSE IF a.readings = <<>>
                       THEN NoData("No readings found")
                       ELSE Statistics(Values(a.readings), low, high)
    /\ pc' = "done"
    /\ UNCHANGED <<inputs, scan>>

InitStatistics ==
    /\ op = "get_statistics"
    /\ \E th \in StatsThresholds : low = th[1] /\ high = th[2]
    /\ max_count = 12
    /\ InitCommon(SeqsUpTo(Records(EpisodeValues, {"2024-01-01T05:50:00Z"}),
                           MaxStatsLen) \cup LongBatches)

NextStatistics == get_statistics

SpecStatistics == InitStatistics /\ [][NextStatistics]_vars

(***************************************************************************)
(* analyze_time_blocks                                                     *)
(***************************************************************************)
\* Longest external batch given to analyze_time_blocks.
MaxBlocksLen == 4

BlockValues == {60, 100}

BlockTimestamps ==
    {"2024-01-01T03:00:00Z", "2024-01-01T08:00:00Z", "2024-01-01T14:00:00Z",
     "2024-01-01T20:00:00Z"}

\* Longest external batch of readings taken at the block boundaries.
MaxHoursLen == 3

\* The last second of one block and the first of the next, and an instant of
\* the following day.
BoundaryTimestamps ==
    {"2024-01-01T03:00:00Z", "2024-01-01T05:59:59Z",
     "2024-01-01T06:00:00+00:00", "2024-01-01T11:59:59Z",
     "2024-01-01T12:00:00Z", "2024-01-01T17:59:59Z", "2024-01-01T18:00:00Z",
     "2024-01-02T03:10:00Z"}

\* The keys of the blocks dict, in insertion (iteration) order.
BlockNames == <<"overnight", "morning", "afternoon", "evening">>

\* BlockOf with the upper limits of the blocks included.
BlockOf_Inclusive(hour) ==
    IF 0 <= hour /\ hour <= 6 THEN "overnight"
    ELSE IF 6 <= hour /\ hour <= 12 THEN "morning"
    ELSE IF 12 <= hour /\ hour <= 18 THEN "afternoon"
    ELSE "evening"

\* The block a reading's hour sorts it into (lines 591-598).
BlockOf(hour) ==
    IF 0 <= hour /\ hour < 6 THEN "overnight"
    ELSE IF 6 <= hour /\ hour < 12 THEN "morning"
    ELSE IF 12 <= hour /\ hour < 18 THEN "afternoon"
    ELSE "evening"

\* blocks[name]["readings"]: the values of the block, in input order.
BlockReadings(rs, name) ==
    Values(SelectSeq(rs, LAMBDA r : BlockOf(Hour(r.datetime)) = name))

\* tir = round(in_range / len(values) * 100, 1)
BlockTir(values, lo, hi) ==
    Percent(Cardinality({k \in 1..Len(values) :
                             lo <= values[k] /\ values[k] <= hi}),
            Len(values))

\* TrackBest with ties going to the later block.
TrackBest_LastWins(t, name, tir) ==
    LET b == IF tir >= t.best_tir
             THEN [t EXCEPT !.best_tir = tir, !.best_block = Some(name)]
             ELSE t
    IN IF tir <= b.worst_tir
       THEN [b EXCEPT !.worst_tir = tir, !.worst_block = Some(name)]
       ELSE b

\* "Track best/worst" (lines 625-630) for one block with readings.
TrackBest(t, name, tir) ==
    LET b == IF tir > t.best_tir
             THEN [t EXCEPT !.best_tir = tir, !.best_block = Some(name)]
             ELSE t
    IN IF tir < b.worst_tir
       THEN [b EXCEPT !.worst_tir = tir, !.worst_block = Some(name)]
       ELSE b

\* The loop over blocks.items() from the k-th block on; tir is in tenths, so
\* best_tir = -1 and worst_tir = 101 are -10 and 1010.
RECURSIVE TrackBlocks(_, _, _, _, _)
TrackBlocks(rs, k, t, lo, hi) ==
    IF k > Len(BlockNames) THEN t
    ELSE LET values == BlockReadings(rs, BlockNames[k])
         IN IF values = <<>> THEN TrackBlocks(rs, k + 1, t, lo, hi)
            ELSE TrackBlocks(rs, k + 1,
                             TrackBest(t, BlockNames[k],
                                       BlockTir(values, lo, hi)),
                             lo, hi)

Assessment(tir) ==
    IF tir >= 800 THEN "excellent"
    ELSE IF tir >= 700 THEN "good"
    ELSE IF tir >= 500 THEN "needs attention"
    ELSE "problematic"

\* analyzed[name]
AnalyzedBlock(values, lo, hi) ==
    IF values = <<>> THEN [status |-> "no_data", readings_count |-> 0]
    ELSE [readings_count |-> Len(values),
          average_mg_dl |-> Round1(SumSeq(values), Len(values)),
          min_mg_dl |-> MinSeq(values),
          max_mg_dl |-> MaxSeq(values),
          time_in_range_percent |-> BlockTir(values, lo, hi),
          time_below_percent |->
              Percent(Cardinality({k \in 1..Len(values) : values[k] < lo}),
                      Len(values)),
          time_above_percent |->
              Percent(Cardinality({k \in 1..Len(values) : values[k] > hi}),
                      Len(values)),
          assessment |-> Assessment(BlockTir(values, lo, hi))]

TimeBlocks(rs, lo, hi) ==
    LET t == TrackBlocks(rs, 1,
                         [best_block |-> None, worst_block |-> None,
                          best_tir |-> 0 - 10, worst_tir |-> 1010],
                         lo, hi)
    IN [status |-> "ok",
        readings_analyzed |-> Len(rs),
        blocks |-> [name \in {BlockNames[k] : k \in 1..Len(BlockNames)} |->
                        AnalyzedBlock(BlockReadings(rs, name), lo, hi)],
        best_block |-> t.best_block,
        worst_block |-> t.worst_block]

\* The whole handler.
analyze_time_blocks ==
    /\ op = "analyze_time_blocks"
    /\ pc = "call"
    /\ LET a == Acquire(data, credentials, feed, 288)
       IN /\ client_calls' = client_calls + a.calls
          /\ readings' = a.readings
          /\ result' = IF a.error # "" THEN Raised(a.error)
                       ELSE IF a.readings = <<>>
                       THEN NoData("No readings available")
                       ELSE TimeBlocks(a.readings, low, high)
    /\ pc' = "done"
    /\ UNCHANGED <<inputs, scan>>

InitBlocks ==
    /\ op = "analyze_time_blocks"
    /\ low = 70
    /\ high = 180
    /\ max_count = 12
    /\ InitCommon(SeqsUpTo(Records(BlockValues, BlockTimestamps),
                           MaxBlocksLen) \cup LongBatches)

NextBlocks == analyze_time_blocks

SpecBlocks == InitBlocks /\ [][NextBlocks]_vars

InitBlockHours ==
    /\ op = "analyze_time_blocks"
    /\ low = 70
    /\ high = 180
    /\ max_count = 12
    /\ InitCommon(SeqsUpTo(Records(BlockValues, BoundaryTimestamps),
                           MaxHoursLen))

SpecBlockHours == InitBlockHours /\ [][NextBlocks]_vars

(***************************************************************************)
(* get_agp_report                                                          *)
(***************************************************************************)
\* Longest external batch given to get_agp_report.
MaxAgpLen == 4

AgpValues == {60, 120, 200}

\* Two instants in hour 3 of different days, and one in hour 8.
AgpTimestamps ==
    {"2024-01-01T03:00:00Z", "2024-01-02T03:10:00Z", "2024-01-01T08:00:00Z"}

\* hourly_values[hour]
HourlyValues(rs, hour) ==
    Values(SelectSeq(rs, LAMBDA r : Hour(r.datetime) = hour))

RECURSIVE InsertValue(_, _)
InsertValue(s, v) ==
    IF s = <<>> THEN <<v>>
    ELSE IF s[Len(s)] <= v THEN Append(s, v)
    ELSE Append(InsertValue(SubSeq(s, 1, Len(s) - 1), v), s[Len(s)])

\* sorted(values)
RECURSIVE SortedValues(_)
SortedValues(s) ==
    IF s = <<>> THEN <<>>
    ELSE InsertValue(SortedValues(SubSeq(s, 1, Len(s) - 1)), s[Len(s)])

\* percentile indexing the values as given, without sorting them.
percentile_Unsorted(values, p) ==
    IF values = <<>> THEN None
    ELSE LET sorted_vals == values
             idx == (Len(sorted_vals) * p) \div 100
         IN Some(sorted_vals[Min2(idx, Len(sorted_vals) - 1) + 1])

\* The nested percentile function; Python indexes from 0.
percentile(values, p) ==
    IF values = <<>> THEN None
    ELSE LET sorted_vals == SortedValues(values)
             idx == (Len(sorted_vals) * p) \div 100
         IN Some(sorted_vals[Min2(idx, Len(sorted_vals) - 1) + 1])

HourlyProfile(rs) ==
    [hour \in 0..23 |->
         LET values == HourlyValues(rs, hour)
         IN [hour |-> hour,
             p5 |-> percentile(values, 5),
             p25 |-> percentile(values, 25),
             p50 |-> percentile(values, 50),
             p75 |-> percentile(values, 75),
             p95 |-> percentile(values, 95),
             readings_count |-> Len(values)]]

\* The report; gmi_percent, cv_percent and std_dev (floating point) are not
\* part of the model.
AgpReport(rs) ==
    LET all_values == Values(rs)
        total == Len(all_values)
        c == BandCounts(all_values, 70, 180)
    IN [status |-> "ok",
        report_type |-> "ambulatory_glucose_profile",
        readings_analyzed |-> total,
        mean_mg_dl |-> Round1(SumSeq(all_values), total),
        time_in_ranges |->
            [very_low_below_54 |-> Percent(c.very_low, total),
             low_54_70 |-> Percent(c.below - c.very_low, total),
             target_70_180 |-> Percent(c.in_range, total),
             high_180_250 |-> Percent(c.above - c.very_high, total),
             very_high_above_250 |-> Percent(c.very_high, total)],
        tir_actual |-> Percent(c.in_range, total),
        tbr_actual |-> Percent(c.below, total),
        hourly_profile |-> HourlyProfile(rs)]

\* The whole handler.
get_agp_report ==
    /\ op = "get_agp_report"
    /\ pc = "call"
    /\ LET a == Acquire(data, credentials, feed, 288)
       IN /\ client_calls' = client_calls + a.calls
          /\ readings' = a.readings
          /\ result' = IF a.error # "" THEN Raised(a.error)
                       ELSE IF a.readings = <<>>
                       THEN NoData("No readings available")
                       ELSE AgpReport(a.readings)
    /\ pc' = "done"
    /\ UNCHANGED <<inputs, scan>>

InitAgp ==
    /\ op = "get_agp_report"
    /\ low = 70
    /\ high = 180
    /\ max_count = 12
    /\ InitCommon(SeqsUpTo(Records(AgpValues, AgpTimestamps), MaxAgpLen))

NextAgp == get_agp_report

SpecAgp == InitAgp /\ [][NextAgp]_vars

(***************************************************************************)
(* export_data                                                             *)
(***************************************************************************)
\* The report; export_timestamp (the clock), period_minutes and the csv text
\* are not part of the model.
Export(rs) ==
    LET records == [k \in 1..Len(rs) |-> ReadingRecord(rs[k])]
    IN [status |-> "ok",
        readings_count |-> Len(records),
        oldest_reading |-> records[Len(records)].timestamp,
        newest_reading |-> records[1].timestamp,
        readings |-> records]

\* The whole handler.
export_data ==
    /\ op = "export_data"
    /\ pc = "call"
    /\ LET a == Acquire(data, credentials, feed, 288)
       IN /\ client_calls' = client_calls + a.calls
          /\ readings' = a.readings
          /\ result' = IF a.error # "" THEN Raised(a.error)
                       ELSE IF a.readings = <<>>
                       THEN NoData("No readings to export")
                       ELSE Export(a.readings)
    /\ pc' = "done"
    /\ UNCHANGED <<inputs, scan>>

\* Longest external batch given to export_data.
MaxExportLen == 3

ExportValues == {60, 200}

InitExport ==
    /\ op = "export_data"
    /\ low = 70
    /\ high = 180
    /\ max_count = 12
    /\ InitCommon(SeqsUpTo(Records(ExportValues, EpisodeTimestamps), MaxExportLen))

NextExport == export_data

SpecExport == InitExport /\ [][NextExport]_vars

(***************************************************************************)
(* get_episode_details                                                     *)
(***************************************************************************)
\* The inner while loop from index j on (1-based): the index after the last
\* member and the type reached.
RECURSIVE GrowEpisode(_, _, _, _, _, _)
GrowEpisode(points, j, is_low_episode, ep_type, lo, hi) ==
    IF j > Len(points) THEN [next |-> j, type |-> ep_type]
    ELSE LET v == points[j].value
             in_low == v < lo
             in_high == v > hi
         IN IF (is_low_episode /\ ~in_low) \/ (~is_low_episode /\ ~in_high)
            THEN [next |-> j, type |-> ep_type]
            ELSE GrowEpisode(points, j + 1, is_low_episode,
                             IF v < 54 THEN "very_low"
                             ELSE IF v > 250 THEN "very_high"
                             ELSE ep_type,
                             lo, hi)

\* The outer while loop from index j on (1-based); start_idx and end_idx are
\* kept 1-based.
RECURSIVE FindEpisodes(_, _, _, _)
FindEpisodes(points, j, lo, hi) ==
    IF j > Len(points) THEN <<>>
    ELSE LET value == points[j].value
         IN IF ~(value < lo) /\ ~(value > hi)
            THEN FindEpisodes(points, j + 1, lo, hi)
            ELSE LET is_low_episode == value < lo
                     ep_type == IF value < lo
                                THEN IF value < 54 THEN "very_low" ELSE "low"
                                ELSE IF value > 250 THEN "very_high"
                                ELSE "high"
                     g == GrowEpisode(points, j, is_low_episode, ep_type,
                                      lo, hi)
                 IN <<[type |-> g.type,
                       start_idx |-> j,
                       end_idx |-> g.next - 1,
                       values |-> SubSeq(points, j, g.next - 1),
                       is_low |-> is_low_episode]>>
                    \o FindEpisodes(points, g.next, lo, hi)

\* list.index(x): the first position of x, 1-based.
IndexOf(s, x) == CHOOSE k \in 1..Len(s) : s[k] = x /\ \A j \in 1..(k - 1) : s[j] # x

\* recovery_minutes: minutes to the first reading of the window within
\* [low, high]; None if there is none.
RECURSIVE RecoveryMinutes(_, _, _, _)
RecoveryMinutes(recovery, end_time, lo, hi) ==
    IF recovery = <<>> THEN None
    ELSE IF lo <= Head(recovery).value /\ Head(recovery).value <= hi
    THEN Some(DurationMinutes(end_time, Head(recovery).datetime))
    ELSE RecoveryMinutes(Tail(recovery), end_time, lo, hi)

Overcorrection(is_low, recovery, lo, hi) ==
    IF recovery = <<>> THEN None
    ELSE LET recovery_values == Values(recovery)
         IN IF is_low /\ MaxSeq(recovery_values) > hi
            THEN Some([type |-> "rebound_high",
                       value |-> MaxSeq(recovery_values)])
            ELSE IF ~is_low /\ MinSeq(recovery_values) < lo
            THEN Some([type |-> "overcorrect_low",
                       value |-> MinSeq(recovery_values)])
            ELSE None

\* RecoveryWindow reaching one reading further.
RecoveryWindow_Seven(points, end_idx) ==
    SubSeq(points, end_idx + 1, Min2(Len(points), end_idx + 7))

\* recovery = points[end_idx + 1:min(len(points), end_idx + 7)], which for the
\* 1-based end_idx is the readings end_idx + 1 .. end_idx + 6.
RecoveryWindow(points, end_idx) ==
    SubSeq(points, end_idx + 1, Min2(Len(points), end_idx + 6))

\* One entry of "detailed"; the three rates (floating point) are not part of
\* the model.
DetailEpisode(points, ep, lo, hi) ==
    LET values == ep.values
        start_time == values[1].datetime
        end_time == values[Len(values)].datetime
        glucose_values == Values(values)
        extreme == IF ep.is_low THEN MinSeq(glucose_values)
                   ELSE MaxSeq(glucose_values)
        extreme_idx == IndexOf(glucose_values, extreme)
        leadup == SubSeq(points, Max2(1, ep.start_idx - 6), ep.start_idx - 1)
        recovery == RecoveryWindow(points, ep.end_idx)
    IN [type |-> ep.type,
        start |-> isoformat(start_time),
        end |-> isoformat(end_time),
        duration_minutes |-> Max2(DurationMinutes(start_time, end_time), 5),
        extreme_value |-> extreme,
        extreme_time |-> isoformat(values[extreme_idx].datetime),
        recovery_minutes |-> RecoveryMinutes(recovery, end_time, lo, hi),
        overcorrection |-> Overcorrection(ep.is_low, recovery, lo, hi),
        leadup_values |-> Values(leadup)]

EpisodeDetails(rs, lo, hi) ==
    LET points == SortedAsc(rs)
        found == FindEpisodes(points, 1, lo, hi)
    IN [status |-> "ok",
        readings_analyzed |-> Len(points),
        episodes_analyzed |-> Len(found),
        episodes |-> [k \in 1..Len(found) |->
                          DetailEpisode(points, found[k], lo, hi)]]

\* The whole handler.
get_episode_details ==
    /\ op = "get_episode_details"
    /\ pc = "call"
    /\ LET a == Acquire(data, credentials, feed, 288)
       IN /\ client_calls' = client_calls + a.calls
          /\ readings' = a.readings
          /\ result' = IF a.error # "" THEN Raised(a.error)
                       ELSE IF a.readings = <<>>
                       THEN NoData("No readings available")
                       ELSE EpisodeDetails(a.readings, low, high)
    /\ pc' = "done"
    /\ UNCHANGED <<inputs, scan>>

\* Longest external batch given to both episode handlers.
MaxDetailsLen == 3

InitDetails ==
    /\ op \in {"detect_episodes", "get_episode_details"}
    /\ \E th \in Thresholds : low = th[1] /\ high = th[2]
    /\ max_count = 12
    /\ InitCommon(SeqsUpTo(Records(EpisodeValues, EpisodeTimestamps),
                           MaxDetailsLen))

NextDetails ==
    \/ detect_episodes_call
    \/ detect_episodes_scan
    \/ detect_episodes_finish
    \/ get_episode_details

SpecDetails == InitDetails /\ [][NextDetails]_vars

\* Longest external batch given to get_episode_details for the recovery
\* window, which spans six readings.
MaxWindowLen == 8

RecoveryValues == {60, 100, 200}

\* Instants at the sensor's 5-minute cadence.
CadenceTimestamps ==
    <<"2024-01-01T10:00:00Z", "2024-01-01T10:05:00Z", "2024-01-01T10:10:00Z",
      "2024-01-01T10:15:00Z", "2024-01-01T10:20:00Z", "2024-01-01T10:25:00Z",
      "2024-01-01T10:30:00Z", "2024-01-01T10:35:00Z", "2024-01-01T10:40:00Z",
      "2024-01-01T10:45:00Z">>

\* The batches of up to n readings at the cadence, oldest first, and the
\* same batches newest first.
CadenceBatches(values, n) ==
    LET stamped(vs) == [k \in 1..Len(vs) |->
                           [glucose_mg_dl |-> vs[k],
                            timestamp |-> CadenceTimestamps[k]]]
        reversed(b) == [k \in 1..Len(b) |-> b[Len(b) + 1 - k]]
    IN {stamped(vs) : vs \in SeqsUpTo(values, n)}
       \cup {reversed(stamped(vs)) : vs \in SeqsUpTo(values, n)}

InitRecovery ==
    /\ op = "get_episode_details"
    /\ low = 70
    /\ high = 180
    /\ max_count = 12
    /\ InitCommon(CadenceBatches(RecoveryValues, MaxWindowLen))

NextRecovery == get_episode_details

SpecRecovery == InitRecovery /\ [][NextRecovery]_vars

(***************************************************************************)
(* All the handlers that accept an external batch                          *)
(***************************************************************************)
BatchOperations ==
    {"get_glucose_readings", "get_statistics", "detect_episodes",
     "get_episode_details", "analyze_time_blocks", "export_data",
     "get_agp_report"}

\* Longest well-formed batch given to every handler.
MaxBatchLen == 2

BatchValues == {45, 200}

BatchTimestamps == {"2024-01-01T05:50:00Z", "2024-01-01T08:00:00Z"}

InitBatch ==
    /\ op \in BatchOperations
    /\ low = 70
    /\ high = 180
    /\ max_count = 12
    /\ InitCommon(SeqsUpTo(Records(BatchValues, BatchTimestamps), MaxBatchLen))

NextBatch ==
    \/ get_glucose_readings
    \/ get_statistics
    \/ detect_episodes_call
    \/ detect_episodes_scan
    \/ detect_episodes_finish
    \/ get_episode_details
    \/ analyze_time_blocks
    \/ export_data
    \/ get_agp_report

SpecBatch == InitBatch /\ [][NextBatch]_vars

(***************************************************************************)
(* Properties of detect_episodes                                           *)
(***************************************************************************)
\* The side of range of a value: low-side if value < 54 or value < low,
\* otherwise high-side if value > 250 or value > high, otherwise in range.
Side(v) ==
    IF v < 54 \/ v < low THEN "low"
    ELSE IF v > 250 \/ v > high THEN "high"
    ELSE "in"

SideAt(k) == Side(sorted_readings[k].value)

\* The maximal runs <<a, b>> of consecutive out-of-range readings of one
\* side, as index intervals of the ascending sequence.
Runs ==
    LET n == Len(sorted_readings)
    IN {r \in (1..n) \X (1..n) :
          /\ r[1] <= r[2]
          /\ SideAt(r[1]) # "in"
          /\ \A k \in r[1]..r[2] : SideAt(k) = SideAt(r[1])
          /\ r[1] = 1 \/ SideAt(r[1] - 1) # SideAt(r[1])
          /\ r[2] = n \/ SideAt(r[2] + 1) # SideAt(r[1])}

\* The k-th run in chronological order.
RunNo(k) == CHOOSE r \in Runs : Cardinality({q \in Runs : q[1] < r[1]}) = k - 1

Finished == pc = "done" /\ result.status = "ok"

\* C1: when detect_episodes returns a report, the readings were scanned in
\* ascending timestamp order and the emitted episodes are exactly the maximal
\* runs of consecutive out-of-range readings of one side, in chronological
\* order: the k-th episode holds the values of the k-th run, starts at its
\* first reading, ends at its last and has a type of the run's side.
C1_EpisodesAreMaximalRuns ==
    (op = "detect_episodes" /\ Finished) =>
        /\ \A k \in 1..(Len(sorted_readings) - 1) :
               sorted_readings[k].datetime <= sorted_readings[k + 1].datetime
        /\ result.readings_analyzed = Len(sorted_readings)
        /\ Len(result.episodes) = Cardinality(Runs)
        /\ Len(episodes) = Cardinality(Runs)
        /\ \A k \in 1..Len(episodes) :
               LET r == RunNo(k)
               IN /\ episodes[k].values =
                         [j \in 1..(r[2] - r[1] + 1) |->
                              sorted_readings[r[1] + j - 1].value]
                  /\ result.episodes[k].start =
                         isoformat(sorted_readings[r[1]].datetime)
                  /\ result.episodes[k].end =
                         isoformat(sorted_readings[r[2]].datetime)
                  /\ IsLowType(result.episodes[k].type) = (SideAt(r[1]) = "low")
                  /\ (result.episodes[k].type \in {"high", "very_high"})
                         = (SideAt(r[1]) = "high")

\* A report with two episodes from a batch given out of order, the first
\* episode a run of two readings directly followed by a run of the other side.
C1_Witness ==
    /\ op = "detect_episodes" /\ Finished
    /\ Truthy(data)
    /\ sorted_readings # readings
    /\ Len(episodes) = 2
    /\ Len(episodes[1].values) = 2
    /\ Len(sorted_readings) = 3

Severity(t) == IF t \in {"very_low", "very_high"} THEN 2 ELSE 1

\* The step kept the open episode open (extended it or marked it), rather
\* than closing it or replacing it by a new one.
SameEpisode ==
    /\ current_episode # None
    /\ current_episode' # None
    /\ Len(current_episode'[1].values) >= Len(current_episode[1].values)
    /\ SubSeq(current_episode'[1].values, 1, Len(current_episode[1].values))
           = current_episode[1].values

\* C2: in every step of the scan, the open episode's type is on the side of
\* all its member readings (low or very_low for a low-side episode, high or
\* very_high for a high-side one), and while an episode stays open its type
\* keeps its direction and never de-escalates (very_low stays very_low,
\* very_high stays very_high).
C2_TypeNeverDeescalates ==
    [][/\ current_episode' # None =>
             \A k \in 1..Len(current_episode'[1].values) :
                 /\ IsLowType(current_episode'[1].type)
                        = (Side(current_episode'[1].values[k]) = "low")
                 /\ (current_episode'[1].type \in {"high", "very_high"})
                        = (Side(current_episode'[1].values[k]) = "high")
       /\ SameEpisode =>
             /\ IsLowType(current_episode'[1].type)
                    = IsLowType(current_episode[1].type)
             /\ Severity(current_episode'[1].type)
                    >= Severity(current_episode[1].type)]_vars

\* An open very_low episode whose latest member is a non-severe low reading.
C2_Witness ==
    /\ pc = "scan"
    /\ current_episode # None
    /\ current_episode[1].type = "very_low"
    /\ Len(current_episode[1].values) >= 2
    /\ current_episode[1].values[Len(current_episode[1].values)] >= 54

\* C3: every member value of every episode, emitted or still open, lies
\* outside [low, high], for every caller-supplied low and high.
C3_MembersOutsideLowHigh ==
    \A e \in {episodes[k] : k \in 1..Len(episodes)}
             \cup {current_episode[k] : k \in 1..Len(current_episode)} :
        \A k \in 1..Len(e.values) : e.values[k] < low \/ e.values[k] > high

\* C4: in a report, an episode is ongoing exactly if it is the last emitted
\* episode and the chronologically last reading is out of range; so at most
\* one episode is ongoing.
C4_OngoingIffOpenAtEnd ==
    (op = "detect_episodes" /\ Finished) =>
        /\ \A k \in 1..Len(result.episodes) :
               result.episodes[k].ongoing
                   = (/\ k = Len(result.episodes)
                      /\ SideAt(Len(sorted_readings)) # "in")
        /\ Cardinality({k \in 1..Len(result.episodes) :
                            result.episodes[k].ongoing}) <= 1

\* A report with a closed episode followed by an ongoing one.
C4_Witness ==
    /\ op = "detect_episodes" /\ Finished
    /\ Len(result.episodes) = 2
    /\ result.episodes[2].ongoing
    /\ ~result.episodes[1].ongoing

(***************************************************************************)
(* Properties of get_statistics and get_glucose_readings                   *)
(***************************************************************************)
\* C7: for 54 <= low <= high <= 250 the five reported percentages are those
\* of the disjoint bands value < 54, 54 <= value < low, low <= value <= high,
\* high < value <= 250 and value > 250, each within [0, 100], and they sum to
\* 100 up to the rounding of five terms.
C7_FiveDisjointBands ==
    (op = "get_statistics" /\ Finished) =>
        LET values == Values(readings)
            total == Len(values)
            n(S) == Cardinality(S)
            idx == 1..total
            sum == result.time_very_low_percent + result.time_below_percent
                   + result.time_in_range_percent + result.time_above_percent
                   + result.time_very_high_percent
        IN /\ result.reading_count = total
           /\ result.time_very_low_percent
                  = Percent(n({k \in idx : values[k] < 54}), total)
           /\ result.time_below_percent
                  = Percent(n({k \in idx : 54 <= values[k] /\ values[k] < low}),
                            total)
           /\ result.time_in_range_percent
                  = Percent(n({k \in idx : low <= values[k] /\ values[k] <= high}),
                            total)
           /\ result.time_above_percent
                  = Percent(n({k \in idx : high < values[k] /\ values[k] <= 250}),
                            total)
           /\ result.time_very_high_percent
                  = Percent(n({k \in idx : values[k] > 250}), total)
           /\ \A f \in {"time_very_low_percent", "time_below_percent",
                        "time_in_range_percent", "time_above_percent",
                        "time_very_high_percent"} :
                  result[f] >= 0 /\ result[f] <= 1000
           /\ sum >= 1000 - 2 /\ sum <= 1000 + 2

\* The timestamps of the readings of a report, as instants.
Instants(rs) == [k \in 1..Len(rs) |-> fromisoformat(rs[k].timestamp)[1]]

\* C8: with a non-empty external batch, get_glucose_readings returns at most
\* max_count readings for every integer max_count (so none when max_count is
\* zero or negative), most recent first, and no returned reading is older
\* than a reading of the batch that was left out.
C8_AtMostMaxCountMostRecent ==
    (op = "get_glucose_readings" /\ pc = "done" /\ Truthy(data)
         /\ result.status # "raised") =>
        LET all == parse_external_data(data[1]).readings
            got == Instants(result.readings)
            given(t) == Cardinality({k \in 1..Len(all) : all[k].datetime = t})
            taken(t) == Cardinality({k \in 1..Len(got) : got[k] = t})
        IN /\ Len(result.readings) <= Max2(max_count, 0)
           /\ \A k \in 1..(Len(got) - 1) : got[k] >= got[k + 1]
           /\ \A k \in 1..Len(all) :
                  /\ taken(all[k].datetime) <= given(all[k].datetime)
                  /\ taken(all[k].datetime) < given(all[k].datetime) =>
                         \A j \in 1..Len(got) : got[j] >= all[k].datetime

(***************************************************************************)
(* Properties of analyze_time_blocks and get_agp_report                    *)
(***************************************************************************)
\* The hours of the four blocks.
BlockHours(name) ==
    CASE name = "overnight" -> 0..5
      [] name = "morning" -> 6..11
      [] name = "afternoon" -> 12..17
      [] name = "evening" -> 18..23

\* The readings (as positions of the input) that fall into the k-th block.
InBlock(k) ==
    {j \in 1..Len(readings) :
         Hour(readings[j].datetime) \in BlockHours(BlockNames[k])}

\* The time-in-range percentage of the k-th block, which has readings.
TirOfBlock(k) ==
    Percent(Cardinality({j \in InBlock(k) :
                             low <= readings[j].value
                                 /\ readings[j].value <= high}),
            Cardinality(InBlock(k)))

\* C9: in a report of analyze_time_blocks, best_block is the first block, in
\* the order overnight, morning, afternoon, evening, that attains the maximum
\* time-in-range percentage among the blocks with readings, worst_block the
\* first that attains the minimum; both are set, and neither is a block
\* without readings.
C9_BestWorstFirstExtreme ==
    (op = "analyze_time_blocks" /\ Finished) =>
        LET withData == {k \in 1..4 : InBlock(k) # {}}
            isMax(k) == \A j \in withData : TirOfBlock(j) <= TirOfBlock(k)
            isMin(k) == \A j \in withData : TirOfBlock(j) >= TirOfBlock(k)
        IN /\ result.best_block # None
           /\ result.worst_block # None
           /\ \E k \in withData :
                  /\ result.best_block = Some(BlockNames[k])
                  /\ isMax(k)
                  /\ \A j \in withData : isMax(j) => k <= j
           /\ \E k \in withData :
                  /\ result.worst_block = Some(BlockNames[k])
                  /\ isMin(k)
                  /\ \A j \in withData : isMin(j) => k <= j

\* A report with an empty block where the two later blocks tie for the best
\* percentage and the first block with readings is the worst.
C9_Witness ==
    /\ op = "analyze_time_blocks" /\ Finished
    /\ InBlock(1) = {}
    /\ InBlock(2) # {} /\ InBlock(3) # {} /\ InBlock(4) # {}
    /\ TirOfBlock(2) < TirOfBlock(3)
    /\ TirOfBlock(3) = TirOfBlock(4)
    /\ result.best_block = Some("afternoon")
    /\ result.worst_block = Some("morning")

\* The 0-based index min(floor(count * p / 100), count - 1).
RankIndex(count, p) == Min2((count * p) \div 100, count - 1)

\* x is the element at 0-based index idx of the ascending sort of the values
\* S (positions of the input): fewer than idx + 1 values are below x, and at
\* least idx + 1 are at most x.
IsOrderStatistic(x, S, idx) ==
    /\ \E j \in S : readings[j].value = x
    /\ Cardinality({j \in S : readings[j].value < x}) <= idx
    /\ Cardinality({j \in S : readings[j].value <= x}) > idx

\* C10: in a report of get_agp_report, for every hour with readings each
\* percentile p is the element at index min(floor(count * p / 100), count - 1)
\* of the hour's values in ascending order, so it is one of the hour's values
\* and p5 <= p25 <= p50 <= p75 <= p95; an hour without readings has none.
C10_PercentilesNearestRank ==
    (op = "get_agp_report" /\ Finished) =>
        \A h \in 0..23 :
            LET S == {j \in 1..Len(readings) : Hour(readings[j].datetime) = h}
                e == result.hourly_profile[h]
            IN /\ e.readings_count = Cardinality(S)
               /\ S = {} => e.p5 = None /\ e.p25 = None /\ e.p50 = None
                            /\ e.p75 = None /\ e.p95 = None
               /\ S # {} =>
                      /\ e.p5 # None /\ e.p25 # None /\ e.p50 # None
                      /\ e.p75 # None /\ e.p95 # None
                      /\ IsOrderStatistic(e.p5[1], S, RankIndex(Cardinality(S), 5))
                      /\ IsOrderStatistic(e.p25[1], S, RankIndex(Cardinality(S), 25))
                      /\ IsOrderStatistic(e.p50[1], S, RankIndex(Cardinality(S), 50))
                      /\ IsOrderStatistic(e.p75[1], S, RankIndex(Cardinality(S), 75))
                      /\ IsOrderStatistic(e.p95[1], S, RankIndex(Cardinality(S), 95))
                      /\ e.p5[1] <= e.p25[1] /\ e.p25[1] <= e.p50[1]
                      /\ e.p50[1] <= e.p75[1] /\ e.p75[1] <= e.p95[1]

\* A report whose hour 3 merges readings of two days, given in descending
\* order of value, with p5 < p50 < p95.
C10_Witness ==
    /\ op = "get_agp_report" /\ Finished
    /\ result.hourly_profile[3].readings_count = 4
    /\ \E j, k \in 1..Len(readings) :
           /\ Hour(readings[j].datetime) = 3 /\ Hour(readings[k].datetime) = 3
           /\ readings[j].datetime # readings[k].datetime
    /\ readings[1].value > readings[2].value
    /\ result.hourly_profile[3].p5[1] < result.hourly_profile[3].p50[1]
    /\ result.hourly_profile[3].p50[1] < result.hourly_profile[3].p95[1]

(***************************************************************************)
(* Properties of the input path                                            *)
(***************************************************************************)
\* A record that lacks a field or whose timestamp does not parse.
Malformed(d) ==
    \/ "glucose_mg_dl" \notin DOMAIN d
    \/ "timestamp" \notin DOMAIN d
    \/ d.timestamp \notin
           {"2024-01-01T05:59:59Z",
            "2024-01-01T06:00:00+00:00",
            "2024-01-01T11:59:59Z",
            "2024-01-01T12:00:00Z",
            "2024-01-01T17:59:59Z",
            "2024-01-01T18:00:00Z",
            "2024-01-01T10:00:00Z",
            "2024-01-01T10:05:00Z",
            "2024-01-01T10:10:00Z",
            "2024-01-01T10:15:00Z",
            "2024-01-01T10:20:00Z",
            "2024-01-01T10:25:00Z",
            "2024-01-01T10:30:00Z",
            "2024-01-01T10:35:00Z",
            "2024-01-01T10:40:00Z",
            "2024-01-01T10:45:00Z",
            "2024-01-01T03:00:00Z",
            "2024-01-01T05:50:00Z",
            "2024-01-01T05:53:00+00:00",
            "2024-01-01T06:07:30Z",
            "2024-01-01T08:00:00Z",
            "2024-01-01T14:00:00Z",
            "2024-01-01T20:00:00Z",
            "2024-01-02T03:10:00Z"}

\* C5: whenever a batch is supplied (data is not None), also an empty one, no
\* handler invokes get_dexcom_client, and an empty batch yields the no_data
\* result.
C5_BatchBypassesClient ==
    data # None =>
        /\ client_calls = 0
        /\ (pc = "done" /\ data[1] = <<>>) => result.status = "no_data"

\* C6: a handler given a batch with a malformed record at any position ends
\* with an error: it returns neither a report nor no_data.
C6_MalformedRecordAborts ==
    (pc = "done" /\ Truthy(data)
         /\ \E k \in 1..Len(data[1]) : Malformed(data[1][k])) =>
        /\ result.status = "raised"
        /\ result.error \in {"KeyError", "ValueError"}
        /\ readings = <<>>
        /\ client_calls = 0

\* A call that ended on a batch whose first and last records are well formed
\* and whose middle record is not.
C6_Witness ==
    /\ pc = "done"
    /\ Truthy(data)
    /\ Len(data[1]) = 3
    /\ ~Malformed(data[1][1])
    /\ Malformed(data[1][2])
    /\ ~Malformed(data[1][3])
    /\ result.status = "raised"

(***************************************************************************)
(* Properties of the time blocks' partition                                *)
(***************************************************************************)
\* C11: in a report of analyze_time_blocks every reading is counted in exactly
\* one block, the block of its hour (0-5 overnight, 6-11 morning, 12-17
\* afternoon, 18-23 evening) whatever its date, value and position in the
\* input; a block's statistics are those of exactly these readings, and the
\* four readings_count sum to readings_analyzed.
C11_BlocksPartitionByHour ==
    (op = "analyze_time_blocks" /\ Finished) =>
        /\ \A j \in 1..Len(readings) :
               Cardinality({k \in 1..4 : j \in InBlock(k)}) = 1
        /\ \A k \in 1..4 :
               LET b == result.blocks[BlockNames[k]]
               IN /\ b.readings_count = Cardinality(InBlock(k))
                  /\ InBlock(k) # {} =>
                         /\ \E j \in InBlock(k) : readings[j].value = b.min_mg_dl
                         /\ \E j \in InBlock(k) : readings[j].value = b.max_mg_dl
                         /\ \A j \in InBlock(k) :
                                /\ b.min_mg_dl <= readings[j].value
                                /\ readings[j].value <= b.max_mg_dl
                         /\ b.time_in_range_percent = TirOfBlock(k)
        /\ result.readings_analyzed = Len(readings)
        /\ result.blocks["overnight"].readings_count
               + result.blocks["morning"].readings_count
               + result.blocks["afternoon"].readings_count
               + result.blocks["evening"].readings_count
           = result.readings_analyzed

\* A report on three readings given out of order: the first second of the
\* morning, the last second of the overnight block and an overnight reading
\* of the next day with another value.
C11_Witness ==
    /\ op = "analyze_time_blocks" /\ Finished
    /\ Len(readings) = 3
    /\ readings[1].datetime = 21600
    /\ readings[2].datetime = 97800
    /\ readings[3].datetime = 21599
    /\ readings[2].value # readings[3].value
    /\ result.blocks["overnight"].readings_count = 2
    /\ result.blocks["morning"].readings_count = 1

(***************************************************************************)
(* Properties of the episodes of detect_episodes and get_episode_details   *)
(***************************************************************************)
\* The instant of a reported timestamp.
Instant(t) == fromisoformat(t)[1]

\* The readings in ascending order of time, as get_episode_details scans
\* them.
Points == SortedAsc(readings)

\* The side of range of a value for get_episode_details.
DetailSide(v) == IF v < low THEN "low" ELSE IF v > high THEN "high" ELSE "in"

\* The maximal runs <<a, b>> of consecutive readings of pts on one side of
\* [low, high], for low <= high.
DetailRunsOf(pts) ==
    LET n == Len(pts)
        side == [k \in 1..n |-> DetailSide(pts[k].value)]
    IN {r \in (1..n) \X (1..n) :
          /\ r[1] <= r[2]
          /\ side[r[1]] # "in"
          /\ \A k \in r[1]..r[2] : side[k] = side[r[1]]
          /\ r[1] = 1 \/ side[r[1] - 1] # side[r[1]]
          /\ r[2] = n \/ side[r[2] + 1] # side[r[1]]}

\* The k-th of the runs in chronological order.
RunNoOf(runs, k) ==
    CHOOSE r \in runs : Cardinality({q \in runs : q[1] < r[1]}) = k - 1

DetailRuns == DetailRunsOf(Points)

DetailRunNo(k) == RunNoOf(DetailRuns, k)

\* Whole minutes from instant a to instant b, by repeated subtraction.
RECURSIVE WholeMinutes(_, _)
WholeMinutes(a, b) == IF b - a < 60 THEN 0 ELSE 1 + WholeMinutes(a + 60, b)

\* C12: every episode reported by detect_episodes and by get_episode_details
\* starts at its first member reading, ends at its last and has
\* duration_minutes = max(5, whole minutes from the first to the last), so at
\* least 5 also for a single reading and for members with one timestamp.
C12_DurationAtLeastFive ==
    (op \in {"detect_episodes", "get_episode_details"} /\ Finished) =>
        /\ \A k \in 1..Len(result.episodes) :
               LET e == result.episodes[k]
                   whole == WholeMinutes(Instant(e.start), Instant(e.end))
               IN /\ e.duration_minutes >= 5
                  /\ e.duration_minutes = IF whole > 5 THEN whole ELSE 5
        /\ op = "detect_episodes" =>
               \A k \in 1..Len(result.episodes) :
                   /\ Instant(result.episodes[k].start)
                          = sorted_readings[RunNo(k)[1]].datetime
                   /\ Instant(result.episodes[k].end)
                          = sorted_readings[RunNo(k)[2]].datetime
        /\ (op = "get_episode_details" /\ low <= high) =>
               /\ Len(result.episodes) = Cardinality(DetailRuns)
               /\ \A k \in 1..Len(result.episodes) :
                      /\ Instant(result.episodes[k].start)
                             = Points[DetailRunNo(k)[1]].datetime
                      /\ Instant(result.episodes[k].end)
                             = Points[DetailRunNo(k)[2]].datetime

\* A report of get_episode_details with an episode of one reading (0 minutes,
\* reported as 5) followed by an episode lasting 14 minutes and 30 seconds
\* (reported as 14).
C12_Witness ==
    /\ op = "get_episode_details" /\ Finished
    /\ Len(result.episodes) = 2
    /\ result.episodes[1].start = result.episodes[1].end
    /\ result.episodes[1].duration_minutes = 5
    /\ Instant(result.episodes[2].end) - Instant(result.episodes[2].start) = 870
    /\ result.episodes[2].duration_minutes = 14

\* C13: for every batch, low and high, get_episode_details analyses the
\* segments detect_episodes emits: the same number of episodes, and the k-th
\* of each has the same type, start, end, duration_minutes and extreme_value.
C13_DetailsMatchDetector ==
    (op = "detect_episodes" /\ Finished) =>
        LET d == EpisodeDetails(readings, low, high)
        IN /\ Len(result.episodes) = d.episodes_analyzed
           /\ \A k \in 1..Len(result.episodes) :
                  /\ result.episodes[k].type = d.episodes[k].type
                  /\ result.episodes[k].start = d.episodes[k].start
                  /\ result.episodes[k].end = d.episodes[k].end
                  /\ result.episodes[k].duration_minutes
                         = d.episodes[k].duration_minutes
                  /\ result.episodes[k].extreme_value
                         = d.episodes[k].extreme_value

\* The positions of the recovery window of the run <<a, b>> of n readings:
\* the up to six readings that follow its last member.
WindowOf(r, n) == {j \in 1..n : r[2] < j /\ j <= r[2] + 6}

\* C14: in a report of get_episode_details (low <= high), the overcorrection
\* of an episode is rebound_high with the largest value of its recovery
\* window exactly if the episode is low-side and some reading of the window
\* exceeds high, overcorrect_low with the smallest value of the window exactly
\* if the episode is high-side and some reading of the window is below low,
\* and absent otherwise; the window is the up to six readings that follow the
\* episode's last member in the ascending sequence.
C14_OvercorrectionFromWindow ==
    (op = "get_episode_details" /\ Finished /\ low <= high) =>
        LET pts == Points
            runs == DetailRunsOf(pts)
        IN /\ Len(result.episodes) = Cardinality(runs)
           /\ \A k \in 1..Len(result.episodes) :
                  LET r == RunNoOf(runs, k)
                      W == WindowOf(r, Len(pts))
                      is_low == DetailSide(pts[r[1]].value) = "low"
                      over == result.episodes[k].overcorrection
                  IN IF is_low /\ \E j \in W : pts[j].value > high
                     THEN /\ over # None
                          /\ over[1].type = "rebound_high"
                          /\ \E j \in W : pts[j].value = over[1].value
                          /\ \A j \in W : pts[j].value <= over[1].value
                     ELSE IF ~is_low /\ \E j \in W : pts[j].value < low
                     THEN /\ over # None
                          /\ over[1].type = "overcorrect_low"
                          /\ \E j \in W : pts[j].value = over[1].value
                          /\ \A j \in W : pts[j].value >= over[1].value
                     ELSE over = None

\* A report on eight readings given newest first: a high episode of one
\* reading whose window holds five readings in range and then the low reading
\* that is reported, and the low episode that reading starts, whose window of
\* one reading holds the high reading that is reported.
C14_Witness ==
    /\ op = "get_episode_details" /\ Finished
    /\ Len(readings) = 8
    /\ readings[1].datetime > readings[8].datetime
    /\ readings[8].value > high
    /\ \A j \in 3..7 : low <= readings[j].value /\ readings[j].value <= high
    /\ readings[2].value < low
    /\ readings[1].value > high
    /\ Len(result.episodes) = 3
    /\ result.episodes[1].overcorrection
           = Some([type |-> "overcorrect_low", value |-> 60])
    /\ result.episodes[2].overcorrection
           = Some([type |-> "rebound_high", value |-> 200])
    /\ result.episodes[3].overcorrection = None


(***************************************************************************)
(* Properties of export_data                                               *)
(***************************************************************************)
\* C15: in a report of export_data on a non-empty external batch, whatever
\* the order of the batch, oldest_reading is the earliest instant among the
\* exported readings and newest_reading the latest.
C15_OldestNewestByTime ==
    (op = "export_data" /\ Finished /\ Truthy(data)) =>
        /\ \E k \in 1..Len(readings) :
               readings[k].datetime = Instant(result.oldest_reading)
        /\ \E k \in 1..Len(readings) :
               readings[k].datetime = Instant(result.newest_reading)
        /\ \A k \in 1..Len(readings) :
               /\ Instant(result.oldest_reading) <= readings[k].datetime
               /\ readings[k].datetime <= Instant(result.newest_reading)


(***************************************************************************)
(* Properties of the severity of the episodes of detect_episodes           *)
(***************************************************************************)
\* The member values of the run <<a, b>> of the ascending sequence.
MembersOf(r) == {sorted_readings[j].value : j \in r[1]..r[2]}

\* C16: in a report of detect_episodes, for every low and high, the type of
\* every episode agrees with its extreme_value: a low-direction episode
\* reports the smallest member value and has type very_low exactly if that
\* value is below 54, a high-direction episode reports the largest member
\* value and has type very_high exactly if that value is above 250; and
\* severe_lows and severe_highs count exactly the low-direction episodes with a
\* member below 54 and the high-direction episodes with a member above 250.
C16_TypeAgreesWithExtreme ==
    (op = "detect_episodes" /\ Finished) =>
        LET eps == result.episodes
            lows == {k \in 1..Len(eps) : IsLowType(eps[k].type)}
        IN /\ Len(eps) = Cardinality(Runs)
           /\ \A k \in 1..Len(eps) :
                  LET members == MembersOf(RunNo(k))
                      extreme == eps[k].extreme_value
                  IN /\ extreme \in members
                     /\ IF k \in lows
                        THEN /\ \A v \in members : extreme <= v
                             /\ eps[k].type = "very_low" <=> extreme < 54
                        ELSE /\ \A v \in members : extreme >= v
                             /\ eps[k].type = "very_high" <=> extreme > 250
           /\ result.summary.severe_lows =
                  Cardinality({k \in lows :
                                   \E v \in MembersOf(RunNo(k)) : v < 54})
           /\ result.summary.severe_highs =
                  Cardinality({k \in (1..Len(eps)) \ lows :
                                   \E v \in MembersOf(RunNo(k)) : v > 250})

\* A report with a low episode that opened on a reading of 54 or more and
\* turned severe on a later one, followed by a high episode that is not
\* severe.
C16_Witness ==
    /\ op = "detect_episodes" /\ Finished
    /\ Len(result.episodes) = 2
    /\ episodes[1].values[1] >= 54
    /\ result.episodes[1].type = "very_low"
    /\ result.episodes[1].extreme_value < 54
    /\ result.episodes[2].type = "high"
    /\ result.summary.severe_lows = 1
    /\ result.summary.severe_highs = 0

====
